---- MODULE Spec2Model ----
(***************************************************************************)
(* Model of anki_flow: the generate -> review -> upload flow of main.py,   *)
(* the upload-only entry point, the snapshot file, and the AnkiConnect    *)
(* client tool of crews/tools/custom_tool.py.                              *)
(*                                                                         *)
(* Conventions.                                                            *)
(*   - An Optional value is a sequence of length 0 or 1: None is <<>>,     *)
(*     Some(v) is <<v>>.  dict.get(k) returns an Optional.                 *)
(*   - A dict is a function from its keys to its values (the empty dict is *)
(*     the function with empty domain).                                    *)
(*   - Text typed by the user (deck names, review answers) is a sequence   *)
(*     of one-character strings, so that strip() and lower() are computed. *)
(*   - A message built by an f-string is the sequence of its fragments,    *)
(*     none of them empty.                                                 *)
(*   - JSON text is a sequence of tokens; json.dump writes it and          *)
(*     json.load parses it.                                                *)
(***************************************************************************)
EXTENDS Integers, Sequences, FiniteSets, TLC

VARIABLES
    pc,            \* position of the full flow (AnkiFlow)
    name_of_deck,  \* AnkiFlow.name_of_deck
    state,         \* AnkiState: deck_name, flashcards, approved
    answer,        \* the last review answer after strip().lower()
    pending,       \* tokens json.dump has still to write to the open file
    file,          \* flashcards/flashcards.json: exists, text
    stdout,        \* last line printed by the full flow
    hist,          \* history of the full flow: generations, answers, uploads
    upc,           \* position of upload_only
    udeck,         \* upload_only: deck_name
    unotes,        \* upload_only: notes (Optional)
    uread,         \* upload_only: what open(...).read() returned (Optional)
    ustdout,       \* last line printed by upload_only
    usent,         \* requests issued by upload_only's upload
    tin,           \* tool harness: the arguments of one _run call
    tout           \* tool harness: Optional result of that call

vars == <<pc, name_of_deck, state, answer, pending, file, stdout, hist,
          upc, udeck, unotes, uread, ustdout, usent, tin, tout>>

flowVars == <<pc, name_of_deck, state, answer, pending, stdout, hist>>
uploadOnlyVars == <<upc, udeck, unotes, uread, ustdout, usent>>
toolVars == <<tin, tout>>

----------------------------------------------------------------------------
(* Bounds of the model *)

MaxNotes == 2
MaxGen == 3
MaxWrong == 1

----------------------------------------------------------------------------
(* Python values *)

None == <<>>
Some(v) == <<v>>
Val(o) == o[1]

Get(d, k) == IF k \in DOMAIN d THEN Some(d[k]) ELSE None
GetOr(d, k, default) == IF k \in DOMAIN d THEN d[k] ELSE default

EmptyDict == <<>>

\* Truthiness of an Optional dict or list: None, {} and [] are falsy.
TruthyOpt(o) == o # None /\ DOMAIN Val(o) # {}

\* Truthiness of an Optional str (a plain string).
TruthyOptStr(o) == o # None /\ Val(o) # ""

SeqsUpTo(S, n) == UNION {[1..k -> S] : k \in 0..n}

----------------------------------------------------------------------------
(* Text typed by the user: str.strip() and str.lower() *)

Whitespace == {" ", "\t"}

RECURSIVE LStrip(_)
LStrip(s) == IF s # <<>> /\ Head(s) \in Whitespace THEN LStrip(Tail(s)) ELSE s

RECURSIVE RStrip(_)
RStrip(s) ==
    IF s # <<>> /\ s[Len(s)] \in Whitespace
    THEN RStrip(SubSeq(s, 1, Len(s) - 1))
    ELSE s

Strip(s) == RStrip(LStrip(s))

LowerChar(c) ==
    CASE c = "Y" -> "y"
      [] c = "N" -> "n"
      [] c = "B" -> "b"
      [] OTHER -> c

Lower(s) == [i \in DOMAIN s |-> LowerChar(s[i])]

----------------------------------------------------------------------------
(* JSON values returned by the service *)

JNull == [type |-> "null", val |-> <<>>]
JList(items) == [type |-> "list", val |-> items]
JStr(s) == [type |-> "str", val |-> <<s>>]

\* Python truthiness of a JSON value: None, [] and "" are falsy.
Truthy(j) ==
    CASE j.type = "null" -> FALSE
      [] j.type = "list" -> j.val # <<>>
      [] j.type = "str" -> j.val # <<"">>

Range(f) == {f[i] : i \in DOMAIN f}

\* `if err:` for an Optional message.  A message is the sequence of its
\* fragments, none of them empty, so the empty string is <<>>.
TruthyMsg(o) == o # None /\ Val(o) # <<>>

----------------------------------------------------------------------------
(* crews/tools/custom_tool.py: AnkiConnectAddNotesTool *)

Url == "http://127.0.0.1:8765"
ModelName == "Basic"

\* One POST to the service.  resp is what the service does with it: a body
\* {result, error}, or one of the requests exceptions.
_request(url, action, params, resp) ==
    LET sent == <<[action |-> action, version |-> 6, params |-> params]>>
    IN  CASE resp.kind = "body" ->
                IF TruthyOptStr(resp.error)
                THEN [result |-> JNull, err |-> Some(<<Val(resp.error)>>), sent |-> sent]
                ELSE [result |-> resp.result, err |-> None, sent |-> sent]
          [] resp.kind = "ConnectionError" ->
                [result |-> JNull,
                 err |-> Some(<<"Failed to connect to AnkiConnect at ", url,
                                ". Make sure Anki is running with AnkiConnect add-on enabled.">>),
                 sent |-> sent]
          [] resp.kind = "Timeout" ->
                [result |-> JNull,
                 err |-> Some(<<"Timeout connecting to AnkiConnect at ", url,
                                ". Anki might be slow to respond.">>),
                 sent |-> sent]
          [] resp.kind = "RequestException" ->
                [result |-> JNull, err |-> Some(<<"Request failed: ", "http error">>),
                 sent |-> sent]

\* _ensure_deck sending the request again when the first attempt failed.
_ensure_deck_Retrying(url, deck_name, resp) ==
    LET r == _request(url, "createDeck", [deck |-> deck_name], resp)
    IN  IF TruthyMsg(r.err)
        THEN [err |-> r.err, sent |-> r.sent \o r.sent]
        ELSE [err |-> r.err, sent |-> r.sent]

_ensure_deck(url, deck_name, resp) ==
    LET r == _request(url, "createDeck", [deck |-> deck_name], resp)
    IN  [err |-> r.err, sent |-> r.sent]

\* _ensure_model_fields asking only for Back.
_ensure_model_fields_BackOnly(url, model_name, resp) ==
    LET r == _request(url, "modelFieldNames", [modelName |-> model_name], resp)
    IN  IF TruthyMsg(r.err)
        THEN [ok |-> FALSE, err |-> r.err, sent |-> r.sent]
        ELSE IF ~Truthy(r.result) \/ r.result.type # "list"
        THEN [ok |-> FALSE, err |-> Some(<<"Invalid response for model field names">>),
              sent |-> r.sent]
        ELSE IF ~({"Back"} \subseteq Range(r.result.val))
        THEN [ok |-> FALSE,
              err |-> Some(<<"Model '", model_name, "' missing required fields ",
                             "{'Front', 'Back'}">>),
              sent |-> r.sent]
        ELSE [ok |-> TRUE, err |-> None, sent |-> r.sent]

_ensure_model_fields(url, model_name, resp) ==
    LET r == _request(url, "modelFieldNames", [modelName |-> model_name], resp)
    IN  IF TruthyMsg(r.err)
        THEN [ok |-> FALSE, err |-> r.err, sent |-> r.sent]
        ELSE IF ~Truthy(r.result) \/ r.result.type # "list"
        THEN [ok |-> FALSE, err |-> Some(<<"Invalid response for model field names">>),
              sent |-> r.sent]
        ELSE IF ~({"Front", "Back"} \subseteq Range(r.result.val))
        THEN [ok |-> FALSE,
              err |-> Some(<<"Model '", model_name, "' missing required fields ",
                             "{'Front', 'Back'}">>),
              sent |-> r.sent]
        ELSE [ok |-> TRUE, err |-> None, sent |-> r.sent]

\* Line 107: fields = n.get("fields") or {"Front": n.get("Front"), "Back": n.get("Back")}
ValidationFields(n) ==
    IF TruthyOpt(Get(n, "fields"))
    THEN n.fields
    ELSE [Front |-> Get(n, "Front"), Back |-> Get(n, "Back")]

\* Line 108: the record is appended to invalid_indices.
IsInvalid(n) ==
    LET fields == ValidationFields(n)
    IN  DOMAIN fields = {} \/ "Front" \notin DOMAIN fields \/ "Back" \notin DOMAIN fields

\* Lines 105-109: the 0-based indices of the invalid records, in order.
RECURSIVE InvalidIndicesFrom(_, _)
InvalidIndicesFrom(notes, i) ==
    IF i > Len(notes)
    THEN <<>>
    ELSE (IF IsInvalid(notes[i]) THEN <<i - 1>> ELSE <<>>)
         \o InvalidIndicesFrom(notes, i + 1)

InvalidIndices(notes) == InvalidIndicesFrom(notes, 1)

\* Line 126: fields = n.get("fields") or {"Front": n.get("Front", ""), "Back": n.get("Back", "")}
PreparedFields(n) ==
    IF TruthyOpt(Get(n, "fields"))
    THEN n.fields
    ELSE [Front |-> GetOr(n, "Front", ""), Back |-> GetOr(n, "Back", "")]

\* Lines 128-136
PreparedNote(deck_name, model_name, n) ==
    [deckName |-> deck_name,
     modelName |-> model_name,
     fields |-> PreparedFields(n),
     options |-> [allowDuplicate |-> FALSE],
     tags |-> GetOr(n, "tags", <<>>)]

\* The batch built back to front.
PreparedNotesReversed(deck_name, model_name, notes) ==
    [i \in DOMAIN notes |->
        PreparedNote(deck_name, model_name, notes[Len(notes) + 1 - i])]

\* Lines 124-136
PreparedNotes(deck_name, model_name, notes) ==
    [i \in DOMAIN notes |-> PreparedNote(deck_name, model_name, notes[i])]

ErrorOut(msg) == [error |-> msg]
ResultOut(r) == [result |-> r]

\* AnkiConnectAddNotesTool._run.  svc gives the service's behaviour for each
\* action; the value is the decoded JSON the method returns, with the requests
\* it sent, in order.
_run(deck_name, model_name, notes, url, svc) ==
    LET invalid_indices == InvalidIndices(notes)
        deck == _ensure_deck(url, deck_name, svc.createDeck)
        model == _ensure_model_fields(url, model_name, svc.modelFieldNames)
        prepared_notes == PreparedNotes(deck_name, model_name, notes)
        add == _request(url, "addNotes", [notes |-> prepared_notes], svc.addNotes)
    IN  IF invalid_indices # <<>>
        THEN [out |-> ErrorOut(<<"Invalid notes at indices: ", ToString(invalid_indices),
                                 ". Each needs Front and Back.">>),
              sent |-> <<>>]
        ELSE IF Strip(deck_name) = <<>>
        THEN [out |-> ErrorOut(<<"deck_name is required">>), sent |-> <<>>]
        ELSE IF TruthyMsg(deck.err)
        THEN [out |-> ErrorOut(<<"Failed to ensure deck: ">> \o Val(deck.err)),
              sent |-> deck.sent]
        ELSE IF ~model.ok
        THEN [out |-> ErrorOut(Val(model.err)), sent |-> deck.sent \o model.sent]
        ELSE IF TruthyMsg(add.err)
        THEN [out |-> ErrorOut(Val(add.err)),
              sent |-> deck.sent \o model.sent \o add.sent]
        ELSE [out |-> ResultOut(add.result),
              sent |-> deck.sent \o model.sent \o add.sent]

----------------------------------------------------------------------------
(* Inputs: card records, deck names, behaviours of the service *)

\* Card records in both shapes: flat Front/Back/tags, and a nested fields map.
FlatFull == [Front |-> "Mitosis", Back |-> "Cell division", tags |-> <<"bio">>]
FlatEmptyFront == [Front |-> "", Back |-> "a"]
FlatNoFront == [Back |-> "a"]
NestedFull == [fields |-> [Front |-> "q", Back |-> "a"], tags |-> <<>>]
NestedNoBack == [fields |-> [Front |-> "q"]]
NestedEmpty == [fields |-> EmptyDict]

ValidNotes == {FlatFull, FlatEmptyFront, NestedFull}
Notes == ValidNotes \cup {FlatNoFront, NestedNoBack, NestedEmpty}

NoteLists == SeqsUpTo(Notes, MaxNotes)

\* A record lacks a required field when its effective field map (the fields
\* map if the record has one, else its own Front/Back keys) has no Front or
\* no Back key.
LacksRequired(n) ==
    IF "fields" \in DOMAIN n
    THEN ~({"Front", "Back"} \subseteq DOMAIN n.fields)
    ELSE ~({"Front", "Back"} \subseteq DOMAIN n)

Biology == <<"B", "i", "o">>
DeckNames == {Biology, <<" ">>, <<>>}

Body(error, result) == [kind |-> "body", error |-> error, result |-> result]
Raises(kind) == [kind |-> kind, error |-> None, result |-> JNull]

Failures == {Raises("ConnectionError"), Raises("Timeout"), Raises("RequestException")}

CreateDeckResponses ==
    Failures \cup {Body(None, JStr("1519323742721")),
                   Body(Some(""), JNull),
                   Body(Some("deck error"), JNull)}

ModelFieldNamesResponses ==
    Failures \cup {Body(None, JList(<<"Front", "Back">>)),
                   Body(None, JList(<<"Text", "Back">>)),
                   Body(None, JList(<<>>)),
                   Body(None, JStr("Front")),
                   Body(None, JNull),
                   Body(Some(""), JList(<<"Front", "Back">>)),
                   Body(Some("model was not found"), JNull)}

AddNotesResponses ==
    Failures \cup {Body(None, JList(<<"1496198395707">>)),
                   Body(Some(""), JNull),
                   Body(Some("cannot create note"), JNull)}

Services ==
    {[createDeck |-> a, modelFieldNames |-> b, addNotes |-> c] :
        a \in CreateDeckResponses, b \in ModelFieldNamesResponses, c \in AddNotesResponses}

\* The service reports a failure: an exception, or a non-null error field.
Failed(resp) == resp.kind # "body" \/ resp.error # None

----------------------------------------------------------------------------
(* JSON text: json.dump and json.load *)

\* A token: its kind t, its text s (a key, a string or prose) and, for an object
\* literal, the card o it denotes.
Tok(t, s, o) == [t |-> t, s |-> s, o |-> o]
LBrace == Tok("{", "", EmptyDict)
RBrace == Tok("}", "", EmptyDict)
LBracket == Tok("[", "", EmptyDict)
RBracket == Tok("]", "", EmptyDict)
Key(k) == Tok("key", k, EmptyDict)
Obj(card) == Tok("obj", "", card)
Str(s) == Tok("str", s, EmptyDict)
Prose(s) == Tok("prose", s, EmptyDict)

JDict(d) == [type |-> "dict", val |-> d]

\* json.dumps of a list of card objects.
DumpList(items) ==
    <<LBracket>> \o [i \in DOMAIN items |-> Obj(items[i])] \o <<RBracket>>

\* The dump of the bare list, without the "flashcards" key.
DumpSnapshotBareList(flashcards) == DumpList(flashcards)

\* Line 35: json.dump({"flashcards": flashcards}, f, ...)
DumpSnapshot(flashcards) ==
    <<LBrace, Key("flashcards")>> \o DumpList(flashcards) \o <<RBrace>>

IsListText(text) ==
    /\ Len(text) >= 2
    /\ text[1] = LBracket
    /\ text[Len(text)] = RBracket
    /\ \A i \in 2..(Len(text) - 1) : text[i].t = "obj"

\* json.loads: the decoded value, or None when the decoder raises.
RECURSIVE JsonLoads(_)
JsonLoads(text) ==
    IF IsListText(text)
    THEN Some(JList([i \in 1..(Len(text) - 2) |-> text[i + 1].o]))
    ELSE IF Len(text) = 1 /\ text[1].t = "str"
    THEN Some(JStr(text[1].s))
    ELSE IF text = <<LBrace, RBrace>>
    THEN Some(JDict(EmptyDict))
    ELSE IF Len(text) >= 4 /\ text[1] = LBrace /\ text[2].t = "key"
            /\ text[Len(text)] = RBrace
    THEN LET inner == JsonLoads(SubSeq(text, 3, Len(text) - 1))
         IN  IF inner = None THEN None ELSE Some(JDict(text[2].s :> Val(inner)))
    ELSE None

\* str.find("[") and str.rfind("]") as 1-based token positions, 0 when absent.
Find(text, tok) ==
    IF \E i \in DOMAIN text : text[i] = tok
    THEN CHOOSE i \in DOMAIN text : text[i] = tok /\ \A j \in 1..(i - 1) : text[j] # tok
    ELSE 0

RFind(text, tok) ==
    IF \E i \in DOMAIN text : text[i] = tok
    THEN CHOOSE i \in DOMAIN text : text[i] = tok /\ \A j \in (i + 1)..Len(text) : text[j] # tok
    ELSE 0

----------------------------------------------------------------------------
(* main.py: helpers *)

Returned(v) == [raised |-> FALSE, value |-> v]
Raised == [raised |-> TRUE, value |-> <<>>]

\* _run_generate_flashcards answering the empty list where the code raises.
_run_generate_flashcards_EmptyOnFailure(deck_name, gen) ==
    IF gen.raises
    THEN Returned(<<>>)
    ELSE LET raw == gen.raw
             start_idx == Find(raw, LBracket)
             end_idx == RFind(raw, RBracket)
             data == IF JsonLoads(raw) # None
                     THEN JsonLoads(raw)
                     ELSE IF start_idx # 0 /\ end_idx # 0 /\ end_idx > start_idx
                     THEN JsonLoads(SubSeq(raw, start_idx, end_idx))
                     ELSE None
         IN  IF data = None
             THEN Returned(<<>>)
             ELSE IF Val(data).type # "list"
             THEN Returned(<<>>)
             ELSE Returned(Val(data).val)

\* _run_generate_flashcards, lines 58-79.  gen is what the generation crew
\* does: kickoff raises, or returns the raw text gen.raw.
_run_generate_flashcards(deck_name, gen) ==
    IF gen.raises
    THEN Raised
    ELSE LET raw == gen.raw
             start_idx == Find(raw, LBracket)
             end_idx == RFind(raw, RBracket)
             data == IF JsonLoads(raw) # None
                     THEN JsonLoads(raw)
                     ELSE IF start_idx # 0 /\ end_idx # 0 /\ end_idx > start_idx
                     THEN JsonLoads(SubSeq(raw, start_idx, end_idx))
                     ELSE None
         IN  IF data = None
             THEN Raised
             ELSE IF Val(data).type # "list"
             THEN Raised
             ELSE Returned(Val(data).val)

\* _upload_to_anki, lines 82-107.  The uploader agent (crew.py, anki_uploader)
\* has the one tool AnkiConnectAddNotesTool; it is taken to call it once with
\* the inputs it is given and to answer with the tool's output.
_upload_to_anki(deck_name, notes, svc) ==
    _run(deck_name, ModelName, notes, Url, svc)

\* The load with data.get("flashcards", []) and no type check.
LoadSnapshotLenient(f) ==
    IF ~f.exists
    THEN [status |-> "FileNotFoundError", notes |-> <<>>]
    ELSE LET data == JsonLoads(f.text)
         IN  IF data = None
             THEN [status |-> "Exception", notes |-> <<>>]
             ELSE IF Val(data).type # "dict"
             THEN [status |-> "Exception", notes |-> <<>>]
             ELSE LET notes == Get(Val(data).val, "flashcards")
                  IN  IF notes = None \/ Val(notes).type # "list"
                      THEN [status |-> "ok", notes |-> <<>>]
                      ELSE [status |-> "ok", notes |-> Val(notes).val]

\* upload_only, lines 129-143: the outcome of reading the snapshot file f.
LoadSnapshot(f) ==
    IF ~f.exists
    THEN [status |-> "FileNotFoundError", notes |-> <<>>]
    ELSE LET data == JsonLoads(f.text)
         IN  IF data = None
             THEN [status |-> "Exception", notes |-> <<>>]
             ELSE IF Val(data).type # "dict"
             THEN [status |-> "Exception", notes |-> <<>>]
             ELSE LET notes == Get(Val(data).val, "flashcards")
                  IN  IF notes = None \/ Val(notes).type # "list"
                      THEN [status |-> "Exception", notes |-> <<>>]
                      ELSE [status |-> "ok", notes |-> Val(notes).val]

----------------------------------------------------------------------------
(* Inputs of the flow *)

Accept == <<"y">>
Reject == <<"n">>

DeckInputs == DeckNames

AnswerInputs == {<<"y">>, <<" ", "Y", " ">>, <<"n">>, <<"N">>, <<"x">>, <<>>}

\* Card lists the generator may produce.
GeneratedLists == SeqsUpTo({FlatFull}, MaxNotes) \cup {<<FlatNoFront>>}

Says(raw) == [raises |-> FALSE, raw |-> raw]

\* Behaviours of the generation crew: a clean JSON array, an array wrapped in
\* prose, and outputs that cannot be read as an array.
GeneratorBehaviours ==
    {Says(DumpList(l)) : l \in GeneratedLists}
    \cup {Says(<<Prose("Here are the cards:")>> \o DumpList(<<FlatFull>>) \o <<Prose("Done.")>>),
          Says(<<Prose("I found no notes.")>>),
          Says(DumpSnapshot(<<FlatFull>>)),
          Says(<<RBracket, LBracket>>),
          Says(<<LBracket, Prose("oops"), RBracket>>),
          [raises |-> TRUE, raw |-> <<>>]}

\* Behaviours of the service during an upload of the flow or of upload_only.
UploadServices ==
    {svc \in Services :
        /\ svc.createDeck \in {Body(None, JStr("1519323742721")), Raises("ConnectionError")}
        /\ svc.modelFieldNames \in {Body(None, JList(<<"Front", "Back">>)),
                                    Body(None, JList(<<"Text", "Back">>))}
        /\ svc.addNotes \in {Body(None, JList(<<"1496198395707">>)),
                             Body(Some("cannot create note"), JNull)}}

Absent == [exists |-> FALSE, text |-> <<>>]
Holds(text) == [exists |-> TRUE, text |-> text]

\* What flashcards.json may hold when a session starts: nothing, a snapshot of
\* an earlier session, or something else.
InitialFiles ==
    {Absent,
     Holds(DumpSnapshot(<<>>)),
     Holds(DumpSnapshot(<<NestedFull>>)),
     Holds(DumpSnapshot(<<FlatFull, NestedNoBack>>)),
     Holds(<<LBrace, Key("flashcards"), LBracket, Obj(FlatFull)>>),
     Holds(<<LBrace, RBrace>>),
     Holds(<<LBrace, Key("cards")>> \o DumpList(<<FlatFull>>) \o <<RBrace>>),
     Holds(<<LBrace, Key("flashcards"), Str("none"), RBrace>>),
     Holds(DumpList(<<FlatFull>>))}

\* What has happened so far in the session: counts of the steps taken, the
\* requests sent, the result of the latest successful generation, the file as
\* it was when the user approved and the card list handed to the upload.
NoHist ==
    [generations |-> 0, rejections |-> 0, wrong |-> 0, uploads |-> 0, sent |-> <<>>,
     generated |-> None, approved_file |-> None, uploaded |-> None]

NoState == [deck_name |-> None, flashcards |-> None, approved |-> FALSE]

----------------------------------------------------------------------------
(* main.py: class AnkiFlow *)

\* The prompt loop taking whatever is typed, the empty input included.
EnterDeckNameUnchecked(name_input) ==
    /\ pc = "__init__"
    /\ name_of_deck' = Some(name_input)
    /\ pc' = "deck_name_input"
    /\ UNCHANGED stdout
    /\ UNCHANGED <<state, answer, pending, file, hist>>
    /\ UNCHANGED uploadOnlyVars
    /\ UNCHANGED toolVars

\* AnkiFlow.__init__, lines 155-161: one turn of the prompt loop.
EnterDeckName(name_input) ==
    /\ pc = "__init__"
    /\ IF name_input # <<>>
       THEN /\ name_of_deck' = Some(name_input)
            /\ pc' = "deck_name_input"
            /\ UNCHANGED stdout
       ELSE /\ stdout' = <<"Please type a name for the deck.">>
            /\ UNCHANGED <<name_of_deck, pc>>
    /\ UNCHANGED <<state, answer, pending, file, hist>>
    /\ UNCHANGED uploadOnlyVars
    /\ UNCHANGED toolVars

\* AnkiFlow.deck_name_input, lines 163-166.
deck_name_input ==
    /\ pc = "deck_name_input"
    /\ state' = [state EXCEPT !.deck_name = name_of_deck]
    /\ stdout' = <<"Deck name set to: ">> \o Val(name_of_deck)
    /\ pc' = "generate"
    /\ UNCHANGED <<name_of_deck, answer, pending, file, hist>>
    /\ UNCHANGED uploadOnlyVars
    /\ UNCHANGED toolVars

\* Generate keeping the cards the state already has.
GenerateKeepingFirst(gen) ==
    /\ pc = "generate"
    /\ hist.generations < MaxGen
    /\ LET r == _run_generate_flashcards(Val(state.deck_name), gen)
       IN  IF r.raised
           THEN /\ pc' = "raised"
                /\ hist' = [hist EXCEPT !.generations = @ + 1]
                /\ UNCHANGED <<state, pending, file>>
           ELSE /\ state' = [state EXCEPT !.flashcards =
                                IF TruthyOpt(@) THEN @ ELSE Some(r.value)]
                /\ pending' = Some([prev |-> file, todo |-> DumpSnapshot(r.value)])
                /\ file' = Holds(<<>>)
                /\ pc' = "write"
                /\ hist' = [hist EXCEPT !.generations = @ + 1,
                                        !.generated = Some(r.value)]
    /\ stdout' = <<"Generating flashcards from notes...">>
    /\ UNCHANGED <<name_of_deck, answer>>
    /\ UNCHANGED uploadOnlyVars
    /\ UNCHANGED toolVars

\* Generate with the file opened for appending: an existing file keeps its text.
GenerateAppending(gen) ==
    /\ pc = "generate"
    /\ hist.generations < MaxGen
    /\ LET r == _run_generate_flashcards(Val(state.deck_name), gen)
       IN  IF r.raised
           THEN /\ pc' = "raised"
                /\ hist' = [hist EXCEPT !.generations = @ + 1]
                /\ UNCHANGED <<state, pending, file>>
           ELSE /\ state' = [state EXCEPT !.flashcards = Some(r.value)]
                /\ pending' = Some([prev |-> file, todo |-> DumpSnapshot(r.value)])
                /\ file' = IF file.exists THEN file ELSE Holds(<<>>)
                /\ pc' = "write"
                /\ hist' = [hist EXCEPT !.generations = @ + 1,
                                        !.generated = Some(r.value)]
    /\ stdout' = <<"Generating flashcards from notes...">>
    /\ UNCHANGED <<name_of_deck, answer>>
    /\ UNCHANGED uploadOnlyVars
    /\ UNCHANGED toolVars

\* generate_and_review, lines 171-174 and 27-34: one generation, the state
\* update, and open(path, "w"), which creates or truncates the file.
Generate(gen) ==
    /\ pc = "generate"
    /\ hist.generations < MaxGen
    /\ LET r == _run_generate_flashcards(Val(state.deck_name), gen)
       IN  IF r.raised
           THEN /\ pc' = "raised"
                /\ hist' = [hist EXCEPT !.generations = @ + 1]
                /\ UNCHANGED <<state, pending, file>>
           ELSE /\ state' = [state EXCEPT !.flashcards = Some(r.value)]
                /\ pending' = Some([prev |-> file, todo |-> DumpSnapshot(r.value)])
                /\ file' = Holds(<<>>)
                /\ pc' = "write"
                /\ hist' = [hist EXCEPT !.generations = @ + 1,
                                        !.generated = Some(r.value)]
    /\ stdout' = <<"Generating flashcards from notes...">>
    /\ UNCHANGED <<name_of_deck, answer>>
    /\ UNCHANGED uploadOnlyVars
    /\ UNCHANGED toolVars

\* Line 35: json.dump writes through the file's buffer; a flush puts the next
\* part of the text into the file.
WriteChunk(k) ==
    /\ pc = "write"
    /\ k \in 1..Len(Val(pending).todo)
    /\ file' = Holds(file.text \o SubSeq(Val(pending).todo, 1, k))
    /\ pending' = Some([Val(pending) EXCEPT
                           !.todo = SubSeq(@, k + 1, Len(@))])
    /\ UNCHANGED <<pc, name_of_deck, state, answer, stdout, hist>>
    /\ UNCHANGED uploadOnlyVars
    /\ UNCHANGED toolVars

\* Lines 34-35 and 175: leaving the with block flushes the rest and closes.
CloseFile ==
    /\ pc = "write"
    /\ file' = Holds(file.text \o Val(pending).todo)
    /\ pending' = None
    /\ stdout' = <<"Flashcards saved to 'anki_flow/flashcards/flashcards.json'.">>
    /\ pc' = "review"
    /\ UNCHANGED <<name_of_deck, state, answer, hist>>
    /\ UNCHANGED uploadOnlyVars
    /\ UNCHANGED toolVars

\* Review with the unrecognised answer treated as a rejection.
ReviewRegeneratesOnWrong(answer_input) ==
    /\ pc = "review"
    /\ LET a == Lower(Strip(answer_input))
       IN  /\ answer' = a
           /\ IF a = <<"y">>
              THEN /\ state' = [state EXCEPT !.approved = TRUE]
                   /\ pc' = "send_to_anki"
                   /\ hist' = [hist EXCEPT !.approved_file = Some(file)]
                   /\ UNCHANGED stdout
              ELSE IF a = <<"n">>
              THEN /\ stdout' = <<"Regenerating flashcards...">>
                   /\ pc' = "generate"
                   /\ hist' = [hist EXCEPT !.rejections = @ + 1]
                   /\ UNCHANGED state
              ELSE /\ hist.wrong < MaxWrong
                   /\ stdout' = <<"Regenerating flashcards...">>
                   /\ pc' = "generate"
                   /\ hist' = [hist EXCEPT !.wrong = @ + 1]
                   /\ UNCHANGED state
    /\ UNCHANGED <<name_of_deck, pending, file>>
    /\ UNCHANGED uploadOnlyVars
    /\ UNCHANGED toolVars

\* Review with every answer other than "n" taken as an approval.
ReviewApprovesUnlessN(answer_input) ==
    /\ pc = "review"
    /\ LET a == Lower(Strip(answer_input))
       IN  /\ answer' = a
           /\ IF a # <<"n">>
              THEN /\ state' = [state EXCEPT !.approved = TRUE]
                   /\ pc' = "send_to_anki"
                   /\ hist' = [hist EXCEPT !.approved_file = Some(file)]
                   /\ UNCHANGED stdout
              ELSE /\ stdout' = <<"Regenerating flashcards...">>
                   /\ pc' = "generate"
                   /\ hist' = [hist EXCEPT !.rejections = @ + 1]
                   /\ UNCHANGED state
    /\ UNCHANGED <<name_of_deck, pending, file>>
    /\ UNCHANGED uploadOnlyVars
    /\ UNCHANGED toolVars

\* generate_and_review, lines 177-187: one turn of the review prompt.
Review(answer_input) ==
    /\ pc = "review"
    /\ LET a == Lower(Strip(answer_input))
       IN  /\ answer' = a
           /\ IF a = <<"y">>
              THEN /\ state' = [state EXCEPT !.approved = TRUE]
                   /\ pc' = "send_to_anki"
                   /\ hist' = [hist EXCEPT !.approved_file = Some(file)]
                   /\ UNCHANGED stdout
              ELSE IF a = <<"n">>
              THEN /\ stdout' = <<"Regenerating flashcards...">>
                   /\ pc' = "generate"
                   /\ hist' = [hist EXCEPT !.rejections = @ + 1]
                   /\ UNCHANGED state
              ELSE /\ hist.wrong < MaxWrong
                   /\ stdout' = <<"Wrong answer. Type either 'y' to accept or 'n' to generate a new set of flashcards.">>
                   /\ hist' = [hist EXCEPT !.wrong = @ + 1]
                   /\ UNCHANGED <<pc, state>>
    /\ UNCHANGED <<name_of_deck, pending, file>>
    /\ UNCHANGED uploadOnlyVars
    /\ UNCHANGED toolVars

\* send_to_anki going back to generation when the upload failed.
send_to_anki_RegenerateOnFailure(svc) ==
    /\ pc = "send_to_anki"
    /\ IF ~state.approved
       THEN /\ pc' = "done"
            /\ UNCHANGED <<stdout, hist>>
       ELSE IF ~TruthyOpt(state.flashcards)
       THEN /\ stdout' = <<"No flashcards to upload. Please add notes to the notes_folder and try again.">>
            /\ pc' = "done"
            /\ UNCHANGED hist
       ELSE LET upload_result ==
                    _upload_to_anki(Val(state.deck_name), Val(state.flashcards), svc)
            IN  /\ hist' = [hist EXCEPT !.uploads = @ + 1,
                                        !.sent = @ \o upload_result.sent,
                                        !.uploaded = state.flashcards]
                /\ stdout' = IF TruthyMsg(Get(upload_result.out, "error"))
                             THEN <<"Upload failed: ">> \o upload_result.out.error
                             ELSE <<"Upload completed.">>
                /\ pc' = IF TruthyMsg(Get(upload_result.out, "error"))
                         THEN "generate"
                         ELSE "done"
    /\ UNCHANGED <<name_of_deck, state, answer, pending, file>>
    /\ UNCHANGED uploadOnlyVars
    /\ UNCHANGED toolVars

\* send_to_anki without the check for an empty card set.
send_to_anki_NoEmptyCheck(svc) ==
    /\ pc = "send_to_anki"
    /\ IF ~state.approved
       THEN UNCHANGED <<stdout, hist>>
       ELSE LET upload_result ==
                    _upload_to_anki(Val(state.deck_name), Val(state.flashcards), svc)
            IN  /\ hist' = [hist EXCEPT !.uploads = @ + 1,
                                        !.sent = @ \o upload_result.sent,
                                        !.uploaded = state.flashcards]
                /\ stdout' = IF TruthyMsg(Get(upload_result.out, "error"))
                             THEN <<"Upload failed: ">> \o upload_result.out.error
                             ELSE <<"Upload completed.">>
    /\ pc' = "done"
    /\ UNCHANGED <<name_of_deck, state, answer, pending, file>>
    /\ UNCHANGED uploadOnlyVars
    /\ UNCHANGED toolVars

\* AnkiFlow.send_to_anki, lines 192-204.
send_to_anki(svc) ==
    /\ pc = "send_to_anki"
    /\ IF ~state.approved
       THEN UNCHANGED <<stdout, hist>>
       ELSE IF ~TruthyOpt(state.flashcards)
       THEN /\ stdout' = <<"No flashcards to upload. Please add notes to the notes_folder and try again.">>
            /\ UNCHANGED hist
       ELSE LET upload_result ==
                    _upload_to_anki(Val(state.deck_name), Val(state.flashcards), svc)
            IN  /\ hist' = [hist EXCEPT !.uploads = @ + 1,
                                        !.sent = @ \o upload_result.sent,
                                        !.uploaded = state.flashcards]
                /\ stdout' = IF TruthyMsg(Get(upload_result.out, "error"))
                             THEN <<"Upload failed: ">> \o upload_result.out.error
                             ELSE <<"Upload completed.">>
    /\ pc' = "done"
    /\ UNCHANGED <<name_of_deck, state, answer, pending, file>>
    /\ UNCHANGED uploadOnlyVars
    /\ UNCHANGED toolVars

----------------------------------------------------------------------------
(* main.py: upload_only *)

\* Lines 125-127: the prompt for the deck name; any input is taken.
UploadOnlyPrompt(name_input) ==
    /\ upc = "start"
    /\ udeck' = name_input
    /\ ustdout' = <<"Deck name set to: ">> \o name_input
    /\ upc' = "load"
    /\ UNCHANGED <<unotes, uread, usent>>
    /\ UNCHANGED flowVars
    /\ UNCHANGED file
    /\ UNCHANGED toolVars

\* Lines 129-143: read and decode flashcards.json as it is at this moment.
UploadOnlyLoad ==
    /\ upc = "load"
    /\ uread' = Some([file |-> file, writer |-> pending])
    /\ LET r == LoadSnapshot(file)
       IN  CASE r.status = "ok" ->
                    /\ unotes' = Some(r.notes)
                    /\ upc' = "upload"
                    /\ UNCHANGED ustdout
             [] r.status = "FileNotFoundError" ->
                    /\ ustdout' = <<"flashcards.json not found in anki_flow/flashcards directory. Generate flashcards first.">>
                    /\ upc' = "returned"
                    /\ UNCHANGED unotes
             [] r.status = "Exception" ->
                    /\ ustdout' = <<"Failed to read flashcards.json: ">>
                    /\ upc' = "returned"
                    /\ UNCHANGED unotes
    /\ UNCHANGED <<udeck, usent>>
    /\ UNCHANGED flowVars
    /\ UNCHANGED file
    /\ UNCHANGED toolVars

\* Lines 145-149.
UploadOnlyUpload(svc) ==
    /\ upc = "upload"
    /\ LET result == _upload_to_anki(udeck, Val(unotes), svc)
       IN  /\ usent' = result.sent
           /\ ustdout' = IF TruthyMsg(Get(result.out, "error"))
                         THEN <<"Upload failed: ">> \o result.out.error
                         ELSE <<"Upload completed.">>
    /\ upc' = "done"
    /\ UNCHANGED <<udeck, unotes, uread>>
    /\ UNCHANGED flowVars
    /\ UNCHANGED file
    /\ UNCHANGED toolVars

----------------------------------------------------------------------------
(* One call of AnkiConnectAddNotesTool._run on arbitrary arguments *)

ToolRun(svc) ==
    /\ tout = None
    /\ tout' = Some([svc |-> svc,
                     r |-> _run(tin.deck_name, tin.model_name, tin.notes, Url, svc)])
    /\ UNCHANGED tin
    /\ UNCHANGED flowVars
    /\ UNCHANGED file
    /\ UNCHANGED uploadOnlyVars

----------------------------------------------------------------------------
(* Specifications *)

NoCall == [deck_name |-> <<>>, model_name |-> ModelName, notes |-> <<>>]

Idle ==
    /\ pc = "__init__"
    /\ name_of_deck = None
    /\ state = NoState
    /\ answer = <<>>
    /\ pending = None
    /\ stdout = <<>>
    /\ hist = NoHist
    /\ upc = "start"
    /\ udeck = <<>>
    /\ unotes = None
    /\ uread = None
    /\ ustdout = <<>>
    /\ usent = <<>>
    /\ tout = None

\* The two entry points, kickoff and upload_only, started on a machine whose
\* flashcards.json is in one of the initial conditions.
Init ==
    /\ Idle
    /\ file \in InitialFiles
    /\ tin = NoCall

\* kickoff: the full flow.
Next ==
    \/ \E name_input \in DeckInputs : EnterDeckName(name_input)
    \/ deck_name_input
    \/ \E gen \in GeneratorBehaviours : Generate(gen)
    \/ \E k \in 1..(MaxNotes + 4) : WriteChunk(k)
    \/ CloseFile
    \/ \E answer_input \in AnswerInputs : Review(answer_input)
    \/ \E svc \in UploadServices : send_to_anki(svc)

Spec == Init /\ [][Next]_vars

\* upload_only alone, on a machine whose flashcards.json is in one of the
\* initial conditions or holds the snapshot of any card list.
InitUploadOnly ==
    /\ Idle
    /\ file \in InitialFiles \cup {Holds(DumpSnapshot(l)) : l \in NoteLists}
    /\ tin = NoCall

NextUploadOnly ==
    \/ \E name_input \in DeckInputs : UploadOnlyPrompt(name_input)
    \/ UploadOnlyLoad
    \/ \E svc \in UploadServices : UploadOnlyUpload(svc)

SpecUploadOnly == InitUploadOnly /\ [][NextUploadOnly]_vars

\* kickoff and upload_only running at the same time over the same file.  The
\* reviewer approves the first set and the service answers every request.
OkService ==
    [createDeck |-> Body(None, JStr("1519323742721")),
     modelFieldNames |-> Body(None, JList(<<"Front", "Back">>)),
     addNotes |-> Body(None, JList(<<"1496198395707">>))]

NextShared ==
    \/ EnterDeckName(Biology)
    \/ deck_name_input
    \/ \E l \in GeneratedLists : Generate(Says(DumpList(l)))
    \/ \E k \in 1..(MaxNotes + 4) : WriteChunk(k)
    \/ CloseFile
    \/ Review(<<"y">>)
    \/ send_to_anki(OkService)
    \/ UploadOnlyPrompt(Biology)
    \/ UploadOnlyLoad
    \/ UploadOnlyUpload(OkService)

SpecShared == Init /\ [][NextShared]_vars

\* kickoff, then upload_only once the flow has ended: saves by the flow and a
\* load of the last one, for card lists of both shapes, with and without tags.
RoundTripLists == SeqsUpTo({FlatFull, NestedFull}, MaxNotes)

NextRoundTrip ==
    \/ EnterDeckName(Biology)
    \/ deck_name_input
    \/ \E l \in RoundTripLists : Generate(Says(DumpList(l)))
    \/ \E k \in 1..(MaxNotes + 4) : WriteChunk(k)
    \/ CloseFile
    \/ \E answer_input \in {Accept, Reject} : Review(answer_input)
    \/ send_to_anki(OkService)
    \/ (pc = "done" /\ UploadOnlyPrompt(Biology))
    \/ (pc = "done" /\ UploadOnlyLoad)
    \/ (pc = "done" /\ UploadOnlyUpload(OkService))

SpecRoundTrip == Init /\ [][NextRoundTrip]_vars

\* The tool alone, called with any deck name and any list of card records,
\* against any behaviour of the service.
InitTool ==
    /\ Idle
    /\ file = Absent
    /\ tin \in [deck_name : DeckNames, model_name : {ModelName}, notes : NoteLists]

NextTool == \E svc \in Services : ToolRun(svc)

SpecTool == InitTool /\ [][NextTool]_vars

----------------------------------------------------------------------------
(* Properties of the full flow (Spec) *)

\* C1: in the full flow, after k rejections, any number of unrecognised
\* answers and one acceptance, generation has been invoked exactly k + 1 times
\* and the upload step has been entered exactly once for a non-empty card set
\* (and not at all for an empty one); an unrecognised answer leaves the flow at
\* the review prompt without a generation.
RejectionLoop ==
    /\ [](state.approved => hist.generations = hist.rejections + 1)
    /\ [](pc = "done" =>
            hist.uploads = IF Val(state.flashcards) # <<>> THEN 1 ELSE 0)
    /\ [](hist.uploads <= 1)
    /\ [][(pc = "review" /\ answer' \notin {Accept, Reject}) =>
            (pc' = "review" /\ hist'.generations = hist.generations)]_vars

\* Answers n, n, y with an unrecognised answer in between: three generations
\* and one upload.
RejectionLoopWitness ==
    /\ pc = "done"
    /\ hist.rejections = 2
    /\ hist.wrong >= 1
    /\ hist.generations = 3
    /\ hist.uploads = 1

\* C2: approved starts false, becomes true only by an acceptance at the
\* review prompt, is never set back to false, and no upload and no service
\* request of the flow happens while it is false.
ApprovedGatesUpload ==
    /\ ~state.approved
    /\ [][(~state.approved /\ state'.approved) =>
            (pc = "review" /\ answer' = Accept)]_vars
    /\ [][state.approved => state'.approved]_vars
    /\ []((hist.uploads > 0 \/ hist.sent # <<>>) => state.approved)

ApprovedGatesUploadWitness ==
    /\ state.approved
    /\ hist.rejections >= 1
    /\ hist.uploads = 1
    /\ hist.sent # <<>>

\* C3: when the approved card set is empty the flow ends with the diagnostic
\* only: the upload step is not entered and no service request is issued.
EmptyApprovedIsNoOp ==
    (pc = "done" /\ state.approved /\ state.flashcards = Some(<<>>)) =>
        /\ hist.uploads = 0
        /\ hist.sent = <<>>
        /\ stdout = <<"No flashcards to upload. Please add notes to the notes_folder and try again.">>

EmptyApprovedWitness ==
    pc = "done" /\ state.approved /\ state.flashcards = Some(<<>>)

----------------------------------------------------------------------------
(* Properties of AnkiConnectAddNotesTool._run (SpecTool) *)

Actions == {"createDeck", "modelFieldNames", "addNotes"}

\* The 0-based indices of the records that lack a required field, in order.
RECURSIVE LackingFrom(_, _)
LackingFrom(notes, i) ==
    IF i > Len(notes)
    THEN <<>>
    ELSE (IF LacksRequired(notes[i]) THEN <<i - 1>> ELSE <<>>)
         \o LackingFrom(notes, i + 1)

\* The effective field map of a record that has both required fields.
EffectiveFields(n) ==
    IF "fields" \in DOMAIN n THEN n.fields ELSE [Front |-> n.Front, Back |-> n.Back]

\* The service accepted the schema: no failure, and a field list with Front
\* and Back.
SchemaValid(resp) ==
    /\ ~Failed(resp)
    /\ resp.result.type = "list"
    /\ {"Front", "Back"} \subseteq Range(resp.result.val)

ActionsSent(sent) == [i \in DOMAIN sent |-> sent[i].action]

\* C4: a list with at least one record that lacks Front or Back, in either
\* shape, is rejected before any request, and the error lists the index of
\* every such record.
MissingFieldRejected ==
    (tout # None /\ \E i \in DOMAIN tin.notes : LacksRequired(tin.notes[i])) =>
        /\ Val(tout).r.sent = <<>>
        /\ Val(tout).r.out =
               ErrorOut(<<"Invalid notes at indices: ",
                          ToString(LackingFrom(tin.notes, 1)),
                          ". Each needs Front and Back.">>)

\* C5: when every record has both required fields and the deck and schema
\* preconditions succeed, the addNotes batch has one PreparedNote per record,
\* in the order of the input, each with the deck name, the model name and
\* allowDuplicate = false; the empty list gives the empty batch.
OnePreparedNotePerRecord ==
    (/\ tout # None
     /\ \A i \in DOMAIN tin.notes : ~LacksRequired(tin.notes[i])
     /\ Strip(tin.deck_name) # <<>>
     /\ ~Failed(Val(tout).svc.createDeck)
     /\ SchemaValid(Val(tout).svc.modelFieldNames)) =>
        LET sent == Val(tout).r.sent
        IN  /\ ActionsSent(sent) = <<"createDeck", "modelFieldNames", "addNotes">>
            /\ LET batch == sent[3].params.notes
               IN  /\ Len(batch) = Len(tin.notes)
                   /\ \A i \in DOMAIN batch :
                        /\ batch[i].deckName = tin.deck_name
                        /\ batch[i].modelName = tin.model_name
                        /\ batch[i].options = [allowDuplicate |-> FALSE]
                        /\ batch[i].fields = EffectiveFields(tin.notes[i])

OnePreparedNotePerRecordWitness ==
    /\ tout # None
    /\ Len(tin.notes) = 2
    /\ tin.notes[1] # tin.notes[2]
    /\ \A i \in DOMAIN tin.notes : ~LacksRequired(tin.notes[i])
    /\ Len(Val(tout).r.sent) = 3
    /\ Len(Val(tout).r.sent[3].params.notes) = 2

\* C6: the requests go out in the order createDeck, modelFieldNames,
\* addNotes; addNotes is sent only if createDeck succeeded and the schema was
\* validated, and otherwise the run ends with an error.
PreconditionsGateAddNotes ==
    tout # None =>
        LET sent == Val(tout).r.sent
            svc == Val(tout).svc
        IN  /\ ActionsSent(sent) \in {<<>>, <<"createDeck">>,
                                      <<"createDeck", "modelFieldNames">>,
                                      <<"createDeck", "modelFieldNames", "addNotes">>}
            /\ (\E i \in DOMAIN sent : sent[i].action = "addNotes") =>
                    (~Failed(svc.createDeck) /\ SchemaValid(svc.modelFieldNames))
            /\ (sent # <<>> /\ (Failed(svc.createDeck) \/ ~SchemaValid(svc.modelFieldNames))) =>
                    "error" \in DOMAIN Val(tout).r.out

\* C7: a response whose error field is non-null, the empty string included,
\* is a failure: the request that got it is the last one of the run, and the
\* run ends with an error.
NonNullErrorIsFailure ==
    tout # None =>
        LET sent == Val(tout).r.sent
            svc == Val(tout).svc
        IN  \A i \in DOMAIN sent :
                (svc[sent[i].action].kind = "body" /\ svc[sent[i].action].error # None) =>
                    (i = Len(sent) /\ "error" \in DOMAIN Val(tout).r.out)

\* C8: no retries: in one run each of createDeck, modelFieldNames and addNotes
\* is sent at most once, whatever the service does.
NoRetries ==
    tout # None =>
        LET sent == Val(tout).r.sent
        IN  /\ Len(sent) <= 3
            /\ \A a \in Actions : Cardinality({i \in DOMAIN sent : sent[i].action = a}) <= 1

NoRetriesWitness ==
    /\ tout # None
    /\ Val(tout).svc.createDeck.kind = "Timeout"
    /\ ActionsSent(Val(tout).r.sent) = <<"createDeck">>

\* The fragments that name an action in front of a surfaced error.
ActionPrefixes(a) ==
    CASE a = "createDeck" -> {"createDeck: ", "Failed to ensure deck: "}
      [] a = "modelFieldNames" -> {"modelFieldNames: "}
      [] a = "addNotes" -> {"addNotes: "}

\* C12: a protocol-level error (a response whose error field is non-null) of
\* any of the three actions ends the run with that error verbatim, prefixed
\* with a fragment naming the action that failed.
ProtocolErrorNamesAction ==
    tout # None =>
        LET sent == Val(tout).r.sent
            svc == Val(tout).svc
            out == Val(tout).r.out
        IN  \A i \in DOMAIN sent :
                (svc[sent[i].action].kind = "body" /\ svc[sent[i].action].error # None) =>
                    /\ "error" \in DOMAIN out
                    /\ \E p \in ActionPrefixes(sent[i].action) :
                            out.error = <<p, Val(svc[sent[i].action].error)>>

InvalidResponseMsg == <<"Invalid response for model field names">>
SchemaErrorMsg(model_name) ==
    <<"Model '", model_name, "' missing required fields ", "{'Front', 'Back'}">>

\* The outcome of the schema check of a run whose modelFieldNames request got
\* a body without error: "ok" when the run went on to addNotes, else the error.
SchemaOutcome(t) ==
    IF Len(t.r.sent) = 3 THEN <<"ok">> ELSE t.r.out.error

SchemaChecked(t) ==
    /\ Len(t.r.sent) >= 2
    /\ t.svc.modelFieldNames.kind = "body"
    /\ t.svc.modelFieldNames.error = None

\* C13 as stated: a result that is not a list gives the 'invalid response'
\* error, a list that lacks Front or Back, the empty list included, gives the
\* schema error naming the model and the required fields, and the check
\* succeeds exactly when the result is a list with both.
SchemaClassificationAsStated ==
    (tout # None /\ SchemaChecked(Val(tout))) =>
        LET result == Val(tout).svc.modelFieldNames.result
        IN  SchemaOutcome(Val(tout)) =
                IF result.type # "list"
                THEN InvalidResponseMsg
                ELSE IF ~({"Front", "Back"} \subseteq Range(result.val))
                THEN SchemaErrorMsg(tin.model_name)
                ELSE <<"ok">>

\* C13 amended: a result that is not a list, or is the empty list, gives the
\* 'invalid response' error; a non-empty list that lacks Front or Back gives
\* the schema error naming the model and the required fields; the check
\* succeeds exactly when the result is a list with both.
SchemaClassification ==
    (tout # None /\ SchemaChecked(Val(tout))) =>
        LET result == Val(tout).svc.modelFieldNames.result
        IN  SchemaOutcome(Val(tout)) =
                IF result.type # "list" \/ result.val = <<>>
                THEN InvalidResponseMsg
                ELSE IF ~({"Front", "Back"} \subseteq Range(result.val))
                THEN SchemaErrorMsg(tin.model_name)
                ELSE <<"ok">>

SchemaClassificationWitness ==
    /\ tout # None
    /\ SchemaChecked(Val(tout))
    /\ Val(tout).svc.modelFieldNames.result = JList(<<"Text", "Back">>)
    /\ Val(tout).r.out = ErrorOut(SchemaErrorMsg(tin.model_name))

\* C17: every PreparedNote of the addNotes batch comes from its record alone:
\* its fields are the record's fields map when the record has one, otherwise
\* Front and Back of the record itself, and its tags are the record's tags,
\* or none when the record has none.
PreparedNoteDerivedFromRecord ==
    (tout # None /\ Len(Val(tout).r.sent) = 3) =>
        LET batch == Val(tout).r.sent[3].params.notes
        IN  \A i \in DOMAIN batch :
                LET n == tin.notes[i]
                IN  /\ IF "fields" \in DOMAIN n
                       THEN DOMAIN batch[i].fields = DOMAIN n.fields
                            /\ \A k \in DOMAIN n.fields : batch[i].fields[k] = n.fields[k]
                       ELSE /\ {"Front", "Back"} \subseteq DOMAIN n
                            /\ batch[i].fields = [Front |-> n.Front, Back |-> n.Back]
                    /\ batch[i].tags = IF "tags" \in DOMAIN n THEN n.tags ELSE <<>>

\* C19: a list with a record that lacks Front or Back, or a deck name that is
\* blank after trimming, ends the run with an error before any request is
\* sent, so nothing of the batch is submitted.
LocalValidationAbortsBatch ==
    (/\ tout # None
     /\ \/ \E i \in DOMAIN tin.notes : LacksRequired(tin.notes[i])
        \/ Strip(tin.deck_name) = <<>>) =>
        /\ "error" \in DOMAIN Val(tout).r.out
        /\ Val(tout).r.sent = <<>>

----------------------------------------------------------------------------
(* Properties of the snapshot file *)

\* C9 (SpecShared): a read of flashcards.json made while a save is in
\* progress returns the complete previous content or the complete new one.
ReaderSeesWholeSnapshot ==
    (uread # None /\ Val(uread).writer # None) =>
        \/ Val(uread).file = Val(Val(uread).writer).prev
        \/ Val(Val(uread).writer).todo = <<>>

\* The text of a well-formed snapshot: {"flashcards": [card, ...]}.
IsSnapshotText(text) ==
    /\ Len(text) >= 5
    /\ text[1] = LBrace
    /\ text[2] = Key("flashcards")
    /\ text[3] = LBracket
    /\ \A i \in 4..(Len(text) - 2) : text[i].t = "obj"
    /\ text[Len(text) - 1] = RBracket
    /\ text[Len(text)] = RBrace

CardsOf(text) == [i \in 1..(Len(text) - 5) |-> text[i + 3].o]

\* C10 (SpecUploadOnly): if the snapshot is absent, malformed, or has no
\* "flashcards" list, upload_only ends with a failure diagnostic and no
\* request; only a present, well-formed snapshot goes on to the upload, with
\* exactly the card sequence the file holds.
UploadOnlyNeedsSnapshot ==
    uread # None =>
        LET f == Val(uread).file
        IN  IF f.exists /\ IsSnapshotText(f.text)
            THEN /\ upc \in {"upload", "done"}
                 /\ unotes = Some(CardsOf(f.text))
            ELSE /\ upc = "returned"
                 /\ unotes = None
                 /\ usent = <<>>
                 /\ ustdout = IF f.exists
                              THEN <<"Failed to read flashcards.json: ">>
                              ELSE <<"flashcards.json not found in anki_flow/flashcards directory. Generate flashcards first.">>

UploadOnlyNeedsSnapshotWitness ==
    /\ upc = "returned"
    /\ Val(uread).file.exists
    /\ Val(uread).file.text = <<LBrace, Key("flashcards"), Str("none"), RBrace>>
    /\ usent = <<>>


\* C11 (SpecRoundTrip): a save followed by a load gives back the saved card
\* sequence, element by element and in order, the empty sequence included; a
\* save replaces whatever the file held before, so after every completed save
\* the file decodes to the cards just saved.
SaveThenLoad ==
    /\ (state.flashcards # None /\ pending = None) =>
            LoadSnapshot(file) = [status |-> "ok", notes |-> Val(state.flashcards)]
    /\ (/\ uread # None
        /\ Val(uread).writer = None
        /\ state.flashcards # None
        /\ pending = None
        /\ Val(uread).file = file) =>
            (upc \in {"upload", "done"} /\ unotes = state.flashcards)

\* The second save of a session, of two different cards, read back.
SaveThenLoadWitness ==
    /\ hist.generations = 2
    /\ pending = None
    /\ state.flashcards = Some(<<NestedFull, FlatFull>>)
    /\ uread # None
    /\ Val(uread).file = file
    /\ unotes = state.flashcards

----------------------------------------------------------------------------
(* Properties of the flow's generations and of its one upload *)

\* C14 (Spec): at every review prompt the save has completed, the file holds
\* the snapshot of state.flashcards, and state.flashcards is the result of
\* the most recent successful generation.
SnapshotCurrentAtReview ==
    pc = "review" =>
        /\ pending = None
        /\ state.flashcards # None
        /\ state.flashcards = hist.generated
        /\ file = Holds(DumpSnapshot(Val(state.flashcards)))
        /\ LoadSnapshot(file) = [status |-> "ok", notes |-> Val(hist.generated)]

SnapshotCurrentAtReviewWitness ==
    /\ pc = "review"
    /\ hist.generations = 2
    /\ hist.rejections = 1
    /\ hist.wrong = 1
    /\ hist.generated = Some(<<FlatFull>>)

UploadFailed == stdout # <<>> /\ stdout[1] = "Upload failed: "

\* C15 (Spec): a session uploads at most once and sends each action at most
\* once; the upload ends the session, so after a reported failure there is
\* no generation, no review and no request.
UploadFailureEndsSession ==
    [][/\ pc # "done"
       /\ hist'.uploads <= 1
       /\ Len(hist'.sent) <= 3
       /\ (hist'.uploads = 1 => pc' = "done")
       /\ (UploadFailed' => pc' = "done")]_vars

UploadFailureEndsSessionWitness ==
    /\ pc = "done"
    /\ hist.uploads = 1
    /\ hist.generations < MaxGen
    /\ UploadFailed

\* The generator behaviours that give no JSON array: the crew raises, or its
\* text neither is nor embeds the text of a card list.
Embeds(raw, text) ==
    \E i \in 1..Len(raw) : \E j \in i..Len(raw) : SubSeq(raw, i, j) = text

Unreadable ==
    {gen \in GeneratorBehaviours :
        \/ gen.raises
        \/ \A l \in GeneratedLists : ~Embeds(gen.raw, DumpList(l))
        \/ gen.raw[1] = LBrace}

\* C16 (Spec): a generation whose output is no JSON array ends the session at
\* once with state.flashcards, approved and the file as they were, approved
\* false and nothing uploaded; no step follows, so no review and no upload.
GenerationFailureEndsSession ==
    [][/\ pc # "raised"
       /\ \A gen \in Unreadable : Generate(gen) => pc' = "raised"
       /\ pc' = "raised" =>
            /\ pc = "generate"
            /\ state' = state
            /\ ~state'.approved
            /\ file' = file
            /\ pending' = None
            /\ hist'.uploads = 0
            /\ hist'.sent = <<>>]_vars

GenerationFailureEndsSessionWitness ==
    /\ pc = "raised"
    /\ hist.generations = 2
    /\ state.flashcards = Some(<<FlatFull>>)
    /\ file = Holds(DumpSnapshot(<<FlatFull>>))

\* C18 (Spec): the session leaves the deck prompt only with a non-empty name,
\* an empty input leaving it at the prompt; from generation on state.deck_name
\* is that name and never changes, and every request of the upload that names
\* a deck names it.
DeckNameFixed ==
    [][/\ pc = "__init__" =>
            \/ (pc' = "__init__" /\ name_of_deck' = None)
            \/ (pc' = "deck_name_input" /\ name_of_deck' # None
                   /\ Val(name_of_deck') # <<>>)
       /\ pc' \notin {"__init__", "deck_name_input"} =>
            /\ name_of_deck' # None
            /\ Val(name_of_deck') # <<>>
            /\ state'.deck_name = name_of_deck'
       /\ state.deck_name # None => state'.deck_name = state.deck_name
       /\ \A i \in DOMAIN hist'.sent :
            /\ hist'.sent[i].action = "createDeck" =>
                    hist'.sent[i].params.deck = Val(state'.deck_name)
            /\ hist'.sent[i].action = "addNotes" =>
                    \A j \in DOMAIN hist'.sent[i].params.notes :
                        hist'.sent[i].params.notes[j].deckName = Val(state'.deck_name)]_vars

DeckNameFixedWitness ==
    /\ pc = "done"
    /\ state.deck_name = Some(Biology)
    /\ hist.generations = 2
    /\ Len(hist.sent) = 3
    /\ hist.sent[1].params.deck = Biology
    /\ Len(hist.sent[3].params.notes) = 2

\* C20 (Spec): the card list handed to the upload is the list the user
\* approved: it is the result of the most recent generation and what the file
\* held at the moment of approval, and the session is approved.
UploadsApprovedSet ==
    /\ state.approved =>
            /\ hist.approved_file # None
            /\ state.flashcards = hist.generated
            /\ hist.generated # None
            /\ LoadSnapshot(Val(hist.approved_file)) =
                   [status |-> "ok", notes |-> Val(hist.generated)]
    /\ hist.uploaded # None =>
            /\ state.approved
            /\ hist.uploaded = hist.generated
            /\ LoadSnapshot(Val(hist.approved_file)).notes = Val(hist.uploaded)

UploadsApprovedSetWitness ==
    /\ pc = "done"
    /\ hist.rejections = 2
    /\ hist.generations = 3
    /\ hist.uploaded = Some(<<FlatFull>>)
    /\ Len(hist.sent) = 3
====
